---- MODULE Spec2Model ----
(***************************************************************************)
(* MCP Sentinel: the scan command (cli/scan.rs), the scanner (scanner.rs)  *)
(* and the line-oriented detectors (detectors/*.rs).                       *)
(*                                                                         *)
(* Text is modelled by TLA+ strings, character for character.  A regex of  *)
(* a pattern catalog is a sequence of items (literal, word boundary,       *)
(* character class with a quantifier, alternation of literals); is_match   *)
(* is the unanchored search of the regex crate.                            *)
(***************************************************************************)
EXTENDS Integers, Sequences, FiniteSets, TLC

\* ------------------------------------------------------------------------
\* Severity (models::vulnerability::Severity, ordered Low < ... < Critical)
\* ------------------------------------------------------------------------
Severities == {"Low", "Medium", "High", "Critical"}

SeverityRank(s) ==
    CASE s = "Low" -> 1
      [] s = "Medium" -> 2
      [] s = "High" -> 3
      [] s = "Critical" -> 4

\* ------------------------------------------------------------------------
\* Characters and strings
\* ------------------------------------------------------------------------
CharAt(s, i) == SubSeq(s, i, i)

Lower == {"a","b","c","d","e","f","g","h","i","j","k","l","m",
          "n","o","p","q","r","s","t","u","v","w","x","y","z"}
Upper == {"A","B","C","D","E","F","G","H","I","J","K","L","M",
          "N","O","P","Q","R","S","T","U","V","W","X","Y","Z"}
Digit == {"0","1","2","3","4","5","6","7","8","9"}

\* \w of the regex crate, on ASCII text
WordChars == Lower \cup Upper \cup Digit \cup {"_"}

\* \s of the regex crate and char::is_whitespace, on ASCII text
WhiteSpace == {" ", "\t", "\n", "\r", "\f"}

IsWordAt(s, i) == i >= 1 /\ i <= Len(s) /\ CharAt(s, i) \in WordChars

\* \b holds between positions i-1 and i
IsBoundary(s, i) == IsWordAt(s, i - 1) # IsWordAt(s, i)

\* str::find: 0-based byte offset of the first occurrence of pat, or -1 (None)
Find(s, pat) ==
    LET hits == {i \in 1..(Len(s) - Len(pat) + 1) : SubSeq(s, i, i + Len(pat) - 1) = pat}
    IN IF hits = {} THEN -1
       ELSE (CHOOSE i \in hits : \A j \in hits : i <= j) - 1

StartsWith(s, pre) == Len(s) >= Len(pre) /\ SubSeq(s, 1, Len(pre)) = pre

\* str::trim: from the first to the last character that is no whitespace
Trim(s) ==
    LET solid == {i \in 1..Len(s) : CharAt(s, i) \notin WhiteSpace}
    IN IF solid = {} THEN ""
       ELSE SubSeq(s, CHOOSE i \in solid : \A j \in solid : i <= j,
                      CHOOSE i \in solid : \A j \in solid : j <= i)

\* str::lines: split after every "\n"; a terminated line loses its "\n" and
\* then one "\r"; there is no empty last line after a final "\n"
StripCR(l) ==
    IF Len(l) > 0 /\ CharAt(l, Len(l)) = "\r" THEN SubSeq(l, 1, Len(l) - 1) ELSE l

NewLines(content) == {i \in 1..Len(content) : CharAt(content, i) = "\n"}

\* position of the k-th "\n"; 0 before the first line
LineEnd(content, k) ==
    IF k = 0 THEN 0
    ELSE CHOOSE i \in NewLines(content) :
           Cardinality({j \in NewLines(content) : j <= i}) = k

Lines(content) ==
    LET terminated == Cardinality(NewLines(content))
        rest == Len(content) - LineEnd(content, terminated)
    IN [k \in 1..(terminated + (IF rest > 0 THEN 1 ELSE 0)) |->
          IF k <= terminated
          THEN StripCR(SubSeq(content, LineEnd(content, k - 1) + 1,
                              LineEnd(content, k) - 1))
          ELSE SubSeq(content, LineEnd(content, terminated) + 1, Len(content))]

\* format!("{:03}", n)
DigitStr(d) == SubSeq("0123456789", d + 1, d + 1)

RECURSIVE Decimal(_)
Decimal(n) == IF n < 10 THEN DigitStr(n) ELSE Decimal(n \div 10) \o DigitStr(n % 10)

\* a slip: "{}" in place of "{:03}"
Fmt03Unpadded(n) == Decimal(n)

Fmt03(n) ==
    LET d == Decimal(n)
    IN IF Len(d) >= 3 THEN d
       ELSE IF Len(d) = 2 THEN "0" \o d ELSE "00" \o d

\* ------------------------------------------------------------------------
\* Regex items and matching (regex::Regex::is_match)
\* ------------------------------------------------------------------------
Item(t, s, neg, set) == [t |-> t, s |-> s, neg |-> neg, set |-> set]

Lit(s)      == Item("lit", s, FALSE, {})
WordB       == Item("b", "", FALSE, {})
One(set)    == Item("one", "", FALSE, set)
Star(set)   == Item("star", "", FALSE, set)
Plus(set)   == Item("plus", "", FALSE, set)
Opt(set)    == Item("opt", "", FALSE, set)
StarNot(set) == Item("star", "", TRUE, set)
Alt(lits)   == Item("alt", "", FALSE, lits)

\* "." matches every character but "\n"
AnyStar == StarNot({"\n"})
Ws == Star(WhiteSpace)
Quote == One({"'", "\""})

InClass(e, c) == IF e.neg THEN c \notin e.set ELSE c \in e.set

LitAt(s, i, lit) == i + Len(lit) - 1 <= Len(s) /\ SubSeq(s, i, i + Len(lit) - 1) = lit

\* the items re[k..] match a prefix of s[i..]
RECURSIVE MatchAt(_, _, _, _)
MatchAt(re, k, s, i) ==
    IF k > Len(re) THEN TRUE
    ELSE LET e == re[k] IN
      CASE e.t = "lit" -> LitAt(s, i, e.s) /\ MatchAt(re, k + 1, s, i + Len(e.s))
        [] e.t = "b" -> IsBoundary(s, i) /\ MatchAt(re, k + 1, s, i)
        [] e.t = "one" ->
             i <= Len(s) /\ InClass(e, CharAt(s, i)) /\ MatchAt(re, k + 1, s, i + 1)
        [] e.t = "star" ->
             \/ MatchAt(re, k + 1, s, i)
             \/ i <= Len(s) /\ InClass(e, CharAt(s, i)) /\ MatchAt(re, k, s, i + 1)
        [] e.t = "plus" ->
             /\ i <= Len(s) /\ InClass(e, CharAt(s, i))
             /\ \/ MatchAt(re, k + 1, s, i + 1)
                \/ MatchAt(re, k, s, i + 1)
        [] e.t = "opt" ->
             \/ MatchAt(re, k + 1, s, i)
             \/ i <= Len(s) /\ InClass(e, CharAt(s, i)) /\ MatchAt(re, k + 1, s, i + 1)
        [] e.t = "alt" ->
             \E a \in e.set : LitAt(s, i, a) /\ MatchAt(re, k + 1, s, i + Len(a))

is_match(re, s) == \E i \in 1..(Len(s) + 1) : MatchAt(re, 1, s, i)

\* ------------------------------------------------------------------------
\* Findings (models::vulnerability::Vulnerability).  description, impact,
\* remediation and evidence are constant texts of the family and are left
\* out; column 0 stands for None; confidence is in hundredths.
\* ------------------------------------------------------------------------
NoColumn == 0

\* a slip: with_line(line_num) in place of with_line(line_num + 1)
VulnZeroBasedLine(id, kind, severity, title, file, line, column, snippet, confidence) ==
    [id |-> id, kind |-> kind, severity |-> severity, title |-> title,
     file |-> file, line |-> line - 1, column |-> column,
     code_snippet |-> snippet, confidence |-> confidence]

Vuln(id, kind, severity, title, file, line, column, snippet, confidence) ==
    [id |-> id, kind |-> kind, severity |-> severity, title |-> title,
     file |-> file, line |-> line, column |-> column,
     code_snippet |-> snippet, confidence |-> confidence]

Ok(v) == [ok |-> TRUE, val |-> v]
Err(e) == [ok |-> FALSE, val |-> e]

\* ------------------------------------------------------------------------
\* detectors/code_injection.rs
\* ------------------------------------------------------------------------
\* a slip: the entries of severity Medium are entered as Low
PatDowngraded(name, language, src, regex, severity) ==
    [name |-> name, language |-> language, src |-> src, regex |-> regex,
     severity |-> IF severity = "Medium" THEN "Low" ELSE severity]

Pat(name, language, src, regex, severity) ==
    [name |-> name, language |-> language, src |-> src, regex |-> regex,
     severity |-> severity]

Call(pre) == pre \o <<Ws, Lit("(")>>

CODE_INJECTION_PATTERNS == <<
    Pat("Python eval() usage", "Python", "\\beval\\s*\\(",
        Call(<<WordB, Lit("eval")>>), "Critical"),
    Pat("Python exec() usage", "Python", "\\bexec\\s*\\(",
        Call(<<WordB, Lit("exec")>>), "Critical"),
    Pat("Python compile() usage", "Python", "\\bcompile\\s*\\(",
        Call(<<WordB, Lit("compile")>>), "High"),
    Pat("Python __import__() usage", "Python", "__import__\\s*\\(",
        Call(<<Lit("__import__")>>), "High"),
    Pat("Python eval via getattr", "Python",
        "getattr\\s*\\([^)]*,\\s*['\"]eval['\"]\\s*\\)",
        <<Lit("getattr"), Ws, Lit("("), StarNot({")"}), Lit(","), Ws, Quote,
          Lit("eval"), Quote, Ws, Lit(")")>>, "Critical"),
    Pat("JavaScript eval() usage", "JavaScript/TypeScript", "\\beval\\s*\\(",
        Call(<<WordB, Lit("eval")>>), "Critical"),
    Pat("JavaScript Function() constructor", "JavaScript/TypeScript",
        "\\bnew\\s+Function\\s*\\(",
        Call(<<WordB, Lit("new"), Plus(WhiteSpace), Lit("Function")>>), "Critical"),
    Pat("JavaScript Function() without new", "JavaScript/TypeScript",
        "\\bFunction\\s*\\([^)]*\\)\\s*\\(",
        Call(<<WordB, Lit("Function"), Ws, Lit("("), StarNot({")"}), Lit(")")>>),
        "Critical"),
    Pat("Node.js vm.runInNewContext", "JavaScript/TypeScript",
        "vm\\.runInNewContext\\s*\\(",
        Call(<<Lit("vm.runInNewContext")>>), "Critical"),
    Pat("Node.js vm.runInThisContext", "JavaScript/TypeScript",
        "vm\\.runInThisContext\\s*\\(",
        Call(<<Lit("vm.runInThisContext")>>), "Critical"),
    Pat("Node.js vm.runInContext", "JavaScript/TypeScript",
        "vm\\.runInContext\\s*\\(",
        Call(<<Lit("vm.runInContext")>>), "Critical"),
    Pat("Ruby eval() usage", "Ruby", "\\beval\\s*\\(",
        Call(<<WordB, Lit("eval")>>), "Critical"),
    Pat("Ruby instance_eval usage", "Ruby", "\\.instance_eval\\s*\\(",
        Call(<<Lit(".instance_eval")>>), "Critical"),
    Pat("Ruby class_eval usage", "Ruby", "\\.class_eval\\s*\\(",
        Call(<<Lit(".class_eval")>>), "Critical"),
    Pat("Ruby module_eval usage", "Ruby", "\\.module_eval\\s*\\(",
        Call(<<Lit(".module_eval")>>), "Critical"),
    Pat("Python execfile() usage", "Python", "\\bexecfile\\s*\\(",
        Call(<<WordB, Lit("execfile")>>), "Critical"),
    Pat("Python InteractiveInterpreter", "Python", "code\\.InteractiveInterpreter",
        <<Lit("code.InteractiveInterpreter")>>, "High"),
    Pat("PHP eval() usage", "PHP", "\\beval\\s*\\(",
        Call(<<WordB, Lit("eval")>>), "Critical"),
    Pat("PHP assert() with code string", "PHP", "\\bassert\\s*\\(\\s*['\"]",
        <<WordB, Lit("assert"), Ws, Lit("("), Ws, Quote>>, "Critical"),
    Pat("PHP preg_replace /e modifier", "PHP",
        "preg_replace\\s*\\([^)]*['\"]/.*e.*['\"]",
        <<Lit("preg_replace"), Ws, Lit("("), StarNot({")"}), Quote, Lit("/"),
          AnyStar, Lit("e"), AnyStar, Quote>>, "Critical") >>

\* a slip: the line is tested as it is, without trim()
IsCommentLineUntrimmed(line) == StartsWith(line, "#") \/ StartsWith(line, "//")

\* the comment heuristic of detect: the trimmed line starts with # or //
IsCommentLine(line) ==
    LET trimmed == Trim(line)
    IN StartsWith(trimmed, "#") \/ StartsWith(trimmed, "//")

\* the inner loop of detect over the patterns k.. for one line
RECURSIVE CodeInjectionLine(_, _, _, _, _)
CodeInjectionLine(line, line_num, file_path, k, id_counter) ==
    IF k > Len(CODE_INJECTION_PATTERNS) THEN <<>>
    ELSE LET pattern == CODE_INJECTION_PATTERNS[k] IN
         IF is_match(pattern.regex, line)
         THEN LET found == Find(line, pattern.src)
                  column == (IF found = -1 THEN 0 ELSE found) + 1
                  vuln == Vuln("CODE-INJ-" \o Fmt03(id_counter), "CodeInjection",
                               pattern.severity, pattern.name \o " Detected",
                               file_path, line_num + 1, column, line, 90)
              IN <<vuln>> \o CodeInjectionLine(line, line_num, file_path, k + 1,
                                               id_counter + 1)
         ELSE CodeInjectionLine(line, line_num, file_path, k + 1, id_counter)

\* the outer loop of detect over the lines i.. (line_num = i - 1)
RECURSIVE CodeInjectionLines(_, _, _, _)
CodeInjectionLines(ls, i, file_path, id_counter) ==
    IF i > Len(ls) THEN <<>>
    ELSE IF IsCommentLine(ls[i])
         THEN CodeInjectionLines(ls, i + 1, file_path, id_counter)
         ELSE LET found == CodeInjectionLine(ls[i], i - 1, file_path, 1, id_counter)
              IN found \o CodeInjectionLines(ls, i + 1, file_path,
                                             id_counter + Len(found))

\* a slip: on a .js file only the JavaScript and Node.js entries are reported
JavaScriptFinding(v) ==
    StartsWith(v.title, "JavaScript") \/ StartsWith(v.title, "Node.js")

code_injection_detect_by_extension(content, file_path) ==
    LET all == CodeInjectionLines(Lines(content), 1, file_path, 1)
    IN Ok(IF Find(file_path, ".js") # -1
          THEN SelectSeq(all, JavaScriptFinding)
          ELSE all)

code_injection_detect(content, file_path) ==
    Ok(CodeInjectionLines(Lines(content), 1, file_path, 1))

\* ------------------------------------------------------------------------
\* detectors/deserialization.rs
\* ------------------------------------------------------------------------
DESERIALIZATION_PATTERNS == <<
    Pat("Python pickle.loads()", "Python", "pickle\\.loads?\\s*\\(",
        Call(<<Lit("pickle.load"), Opt({"s"})>>), "Critical"),
    Pat("Python yaml.load() without SafeLoader", "Python",
        "yaml\\.load\\s*\\([^,)]*\\)",
        <<Lit("yaml.load"), Ws, Lit("("), StarNot({",", ")"}), Lit(")")>>, "Critical"),
    Pat("Python marshal.loads()", "Python", "marshal\\.loads?\\s*\\(",
        Call(<<Lit("marshal.load"), Opt({"s"})>>), "High"),
    Pat("Python shelve usage", "Python", "shelve\\.open\\s*\\(",
        Call(<<Lit("shelve.open")>>), "Medium"),
    Pat("Java ObjectInputStream.readObject()", "Java",
        "ObjectInputStream.*\\.readObject\\s*\\(",
        Call(<<Lit("ObjectInputStream"), AnyStar, Lit(".readObject")>>), "Critical"),
    Pat("PHP unserialize()", "PHP", "\\bunserialize\\s*\\(",
        Call(<<WordB, Lit("unserialize")>>), "Critical"),
    Pat("Ruby Marshal.load()", "Ruby", "Marshal\\.load\\s*\\(",
        Call(<<Lit("Marshal.load")>>), "Critical"),
    Pat("Node.js node-serialize", "JavaScript/TypeScript",
        "serialize\\.unserialize\\s*\\(",
        Call(<<Lit("serialize.unserialize")>>), "Critical") >>

RECURSIVE DeserializationLine(_, _, _, _, _)
DeserializationLine(line, line_num, file_path, k, id_counter) ==
    IF k > Len(DESERIALIZATION_PATTERNS) THEN <<>>
    ELSE LET pattern == DESERIALIZATION_PATTERNS[k] IN
         IF is_match(pattern.regex, line)
         THEN LET vuln == Vuln("DESER-" \o Fmt03(id_counter), "UnsafeDeserialization",
                               pattern.severity, pattern.name \o " Detected",
                               file_path, line_num + 1, NoColumn, line, 88)
              IN <<vuln>> \o DeserializationLine(line, line_num, file_path, k + 1,
                                                 id_counter + 1)
         ELSE DeserializationLine(line, line_num, file_path, k + 1, id_counter)

RECURSIVE DeserializationLines(_, _, _, _)
DeserializationLines(ls, i, file_path, id_counter) ==
    IF i > Len(ls) THEN <<>>
    ELSE LET found == DeserializationLine(ls[i], i - 1, file_path, 1, id_counter)
         IN found \o DeserializationLines(ls, i + 1, file_path, id_counter + Len(found))

deserialization_detect(content, file_path) ==
    Ok(DeserializationLines(Lines(content), 1, file_path, 1))

\* ------------------------------------------------------------------------
\* detectors/path_traversal.rs, sql_injection.rs, ssrf.rs: a catalog of bare
\* regexes; the pattern loop breaks at the first match of a line
\* ------------------------------------------------------------------------
\* "( [^)]* + [^)]* )" after a call name
ConcatArgs(pre) ==
    pre \o <<Ws, Lit("("), StarNot({")"}), Lit("+"), StarNot({")"}), Lit(")")>>

PATH_TRAVERSAL_PATTERNS == <<
    <<Lit("../")>>,
    <<Lit("..\\")>>,
    <<Lit("%2e%2e/")>>,
    <<Lit("....//..../")>>,
    ConcatArgs(<<Lit("open")>>) >>

SQL_INJECTION_PATTERNS == <<
    ConcatArgs(<<Lit("execute")>>),
    <<Lit("execute"), Ws, Lit("("), StarNot({")"}), Lit("%"), StarNot({")"}), Lit(")")>>,
    <<Lit("execute"), Ws, Lit("("), StarNot({")"}), Lit("f"), Quote,
      StarNot({"\"", "'"}), Lit("{"), StarNot({"}"}), Lit("}")>>,
    ConcatArgs(<<Lit(".raw")>>),
    ConcatArgs(<<Lit("query")>>) >>

SSRF_PATTERNS == <<
    ConcatArgs(<<Lit("requests."), Alt({"get", "post", "put", "delete"})>>),
    ConcatArgs(<<Lit("urllib.request.urlopen")>>),
    ConcatArgs(<<Lit("fetch")>>),
    ConcatArgs(<<Lit("axios."), Alt({"get", "post"})>>),
    ConcatArgs(<<Lit("http."), Alt({"get", "request"})>>) >>

\* the pattern strings of the three catalogs, as Regex::as_str gives them
PATH_TRAVERSAL_SOURCES == <<
    "\\.\\./",
    "\\.\\.\\\\",
    "%2e%2e/",
    "\\.\\.\\.\\.//\\.\\.\\.\\./",
    "open\\s*\\([^)]*\\+[^)]*\\)" >>

SQL_INJECTION_SOURCES == <<
    "execute\\s*\\([^)]*\\+[^)]*\\)",
    "execute\\s*\\([^)]*%[^)]*\\)",
    "execute\\s*\\([^)]*f[\"'][^\"']*\\{[^}]*\\}",
    "\\.raw\\s*\\([^)]*\\+[^)]*\\)",
    "query\\s*\\([^)]*\\+[^)]*\\)" >>

SSRF_SOURCES == <<
    "requests\\.(get|post|put|delete)\\s*\\([^)]*\\+[^)]*\\)",
    "urllib\\.request\\.urlopen\\s*\\([^)]*\\+[^)]*\\)",
    "fetch\\s*\\([^)]*\\+[^)]*\\)",
    "axios\\.(get|post)\\s*\\([^)]*\\+[^)]*\\)",
    "http\\.(get|request)\\s*\\([^)]*\\+[^)]*\\)" >>

\* a slip: only the first pattern of the catalog is tried on a line
AnyMatchFirstOnly(patterns, line) == is_match(patterns[1], line)

\* some pattern of the catalog matches the line (the loop with its break)
AnyMatch(patterns, line) == \E k \in 1..Len(patterns) : is_match(patterns[k], line)

RECURSIVE PathTraversalLines(_, _, _, _)
PathTraversalLines(ls, i, file_path, id_counter) ==
    IF i > Len(ls) THEN <<>>
    ELSE IF AnyMatch(PATH_TRAVERSAL_PATTERNS, ls[i])
         THEN <<Vuln("PATH-TRAV-" \o Fmt03(id_counter), "PathTraversal", "High",
                     "Path Traversal Pattern Detected", file_path, i, NoColumn,
                     ls[i], 75)>>
              \o PathTraversalLines(ls, i + 1, file_path, id_counter + 1)
         ELSE PathTraversalLines(ls, i + 1, file_path, id_counter)

path_traversal_detect(content, file_path) ==
    Ok(PathTraversalLines(Lines(content), 1, file_path, 1))

RECURSIVE SqlInjectionLines(_, _, _, _)
SqlInjectionLines(ls, i, file_path, id_counter) ==
    IF i > Len(ls) THEN <<>>
    ELSE IF AnyMatch(SQL_INJECTION_PATTERNS, ls[i])
         THEN <<Vuln("SQL-INJ-" \o Fmt03(id_counter), "SqlInjection", "Critical",
                     "SQL Injection Pattern Detected", file_path, i, NoColumn,
                     ls[i], 85)>>
              \o SqlInjectionLines(ls, i + 1, file_path, id_counter + 1)
         ELSE SqlInjectionLines(ls, i + 1, file_path, id_counter)

\* a slip: a content without lines is refused
sql_injection_detect_fallible(content, file_path) ==
    IF Lines(content) = <<>> THEN Err("empty content")
    ELSE Ok(SqlInjectionLines(Lines(content), 1, file_path, 1))

sql_injection_detect(content, file_path) ==
    Ok(SqlInjectionLines(Lines(content), 1, file_path, 1))

RECURSIVE SsrfLines(_, _, _, _)
SsrfLines(ls, i, file_path, id_counter) ==
    IF i > Len(ls) THEN <<>>
    ELSE IF AnyMatch(SSRF_PATTERNS, ls[i])
         THEN <<Vuln("SSRF-" \o Fmt03(id_counter), "DataExfiltration", "High",
                     "SSRF Pattern Detected", file_path, i, NoColumn, ls[i], 70)>>
              \o SsrfLines(ls, i + 1, file_path, id_counter + 1)
         ELSE SsrfLines(ls, i + 1, file_path, id_counter)

ssrf_detect(content, file_path) ==
    Ok(SsrfLines(Lines(content), 1, file_path, 1))

\* ------------------------------------------------------------------------
\* The stubs: secrets.rs, code_vulns.rs, tool_poisoning.rs, prompt_injection.rs
\* ------------------------------------------------------------------------
\* a slip: the stub reports that it is not implemented
secrets_detect_unimplemented(content, file_path) == Err("not implemented")

secrets_detect(content, file_path) == Ok(<<>>)
detect_command_injection(content, file_path) == Ok(<<>>)
detect_sensitive_file_access(content, file_path) == Ok(<<>>)
tool_poisoning_detect(content) == Ok(<<>>)
prompt_injection_detect(content) == Ok(<<>>)

\* ------------------------------------------------------------------------
\* Bounds and inputs
\* ------------------------------------------------------------------------
\* most files a discovery returns
MaxFiles == 3
\* most detector calls of one scan that take the Err arm of scan_file
MaxFaults == 2
\* largest elapsed time in ms that set_duration records
MaxMillis == 1
\* most lines of a text given to one detector alone
MaxLines == 2
\* most findings held by a ScanResult that is driven through its methods alone
MaxFindings == 3

\* the files of the scanned tree: read_file fails on one of them
FileNames == {"a.py", "b.py", "c.py", "d.js", "e.bin"}

FileText(path) ==
    CASE path = "a.py" -> "# os.system(cmd + user_input)\n"
      [] path = "b.py" -> "eval(user_input)\n"
      [] path = "c.py" -> "db = shelve.open(path)\n"
      [] path = "d.js" ->
           "  // eval(x)\nq = open(d + n)\nr = eval(fetch(u + q)) # go\n"
      [] path = "e.bin" -> ""

\* utils::file::read_file(path) -> text | error
read_file(path) ==
    IF path = "e.bin" THEN Err("not valid UTF-8") ELSE Ok(FileText(path))

\* the lists without repetition of at most n files
RECURSIVE FileLists(_)
FileLists(n) ==
    IF n = 0 THEN {<<>>}
    ELSE LET shorter == FileLists(n - 1)
         IN shorter \cup {Append(l, f) : l \in shorter, f \in FileNames}

DistinctFileLists ==
    {l \in FileLists(MaxFiles) : \A i, j \in 1..Len(l) : i # j => l[i] # l[j]}

\* what the file system answers: the kind of the target, and
\* utils::file::discover_files(root, exclude_patterns) -> list<path> | error
FileSystems ==
    {[target |-> "missing", discover |-> Err("not found")],
     [target |-> "file", discover |-> Err("not a directory")],
     [target |-> "dir", discover |-> Err("permission denied")]}
    \cup {[target |-> "dir", discover |-> Ok(l)] : l \in DistinctFileLists}

\* cli::types::OutputFormat and SeverityLevel; "None" is Option::None
OutputFormats == {"Terminal", "Json", "Sarif"}
SeverityLevels == {"Low", "Medium", "High", "Critical"}

\* ------------------------------------------------------------------------
\* models::scan_result::ScanResult
\* ------------------------------------------------------------------------
NoResult == [none |-> TRUE]

ScanResult_new(target, scan_types) ==
    [target |-> target, scan_types |-> scan_types, vulnerabilities |-> <<>>,
     summary |-> [total_issues |-> 0, critical |-> 0, high |-> 0, medium |-> 0,
                  low |-> 0],
     scan_duration_ms |-> 0]

Bump(summary, v) ==
    [total_issues |-> summary.total_issues + 1,
     critical |-> summary.critical + (IF v.severity = "Critical" THEN 1 ELSE 0),
     high |-> summary.high + (IF v.severity = "High" THEN 1 ELSE 0),
     medium |-> summary.medium + (IF v.severity = "Medium" THEN 1 ELSE 0),
     low |-> summary.low + (IF v.severity = "Low" THEN 1 ELSE 0)]

RECURSIVE BumpAll(_, _, _)
BumpAll(summary, vulns, i) ==
    IF i > Len(vulns) THEN summary ELSE BumpAll(Bump(summary, vulns[i]), vulns, i + 1)

\* a slip: the findings are appended and counted, the severity counters are not
add_vulnerabilities_total_only(r, vulns) ==
    [r EXCEPT !.vulnerabilities = @ \o vulns,
              !.summary.total_issues = @ + Len(vulns)]

add_vulnerabilities(r, vulns) ==
    [r EXCEPT !.vulnerabilities = @ \o vulns, !.summary = BumpAll(@, vulns, 1)]

set_duration(r, ms) == [r EXCEPT !.scan_duration_ms = ms]

has_issues_at_level(r, level) ==
    \E i \in 1..Len(r.vulnerabilities) :
        SeverityRank(r.vulnerabilities[i].severity) >= SeverityRank(level)

\* ------------------------------------------------------------------------
\* State
\* ------------------------------------------------------------------------
VARIABLES
    fs,               \* the file system the run meets
    pc,               \* position of execute / scan_directory / scan_file
    scanner,          \* Scanner::new has run
    files,            \* scan_directory: the discovered files
    idx,              \* scan_directory: index of the file of the loop
    file_content,     \* scan_file: the text read
    det,              \* scan_file: number of the next detector block
    vulnerabilities,  \* scan_file: the vector being filled
    failed,           \* detector blocks of this file that took the Err arm
    invoked,          \* detector blocks of this file that have run
    faults,           \* Err arms taken in the whole scan
    result,           \* scan_directory: the ScanResult; NoResult when there is none
    scan_ret,         \* what scan_directory returned: "none", "Ok", "Err"
    args,             \* output, output_file, fail_on as execute has read them
    emitted,          \* the report written: "none", "terminal", "stdout", "file"
    gate,             \* has_issues_at_level answered "yes" or "no"; else "none"
    calls,            \* how often each collaborator was called
    ret               \* what execute returned: "none", "Ok" or the error

vars == <<fs, pc, scanner, files, idx, file_content, det, vulnerabilities, failed,
          invoked, faults, result, scan_ret, args, emitted, gate, calls, ret>>

NoCalls == [discover |-> 0, read |-> 0, detect |-> 0, add |-> 0, duration |-> 0,
            render |-> 0, threshold |-> 0]

Called(what) == [calls EXCEPT ![what] = @ + 1]

Init ==
    /\ fs \in FileSystems
    /\ pc = "start"
    /\ scanner = FALSE
    /\ files = <<>>
    /\ idx = 0
    /\ file_content = ""
    /\ det = 0
    /\ vulnerabilities = <<>>
    /\ failed = {}
    /\ invoked = {}
    /\ faults = 0
    /\ result = NoResult
    /\ scan_ret = "none"
    /\ args = [output |-> "unread", output_file |-> "unread", fail_on |-> "unread"]
    /\ emitted = "none"
    /\ gate = "none"
    /\ calls = NoCalls
    /\ ret = "none"

scan_locals == <<files, idx, file_content, det, vulnerabilities, failed, invoked, faults>>

\* ------------------------------------------------------------------------
\* cli/scan.rs: execute, up to the call of scan_directory
\* ------------------------------------------------------------------------
\* a slip: the is_dir check is missing
ValidateTargetNoDirCheck ==
    /\ pc = "start"
    /\ IF fs.target = "missing"
       THEN ret' = "Err: target path does not exist" /\ pc' = "done"
            /\ scanner' = scanner
       ELSE ret' = ret /\ pc' = "discover" /\ scanner' = TRUE
    /\ UNCHANGED <<fs, scan_locals, result, scan_ret, args, emitted, gate, calls>>

\* the two bail! checks of the target, then Scanner::new
ValidateTarget ==
    /\ pc = "start"
    /\ IF fs.target = "missing"
       THEN ret' = "Err: target path does not exist" /\ pc' = "done"
            /\ scanner' = scanner
       ELSE IF fs.target # "dir"
            THEN ret' = "Err: target must be a directory" /\ pc' = "done"
                 /\ scanner' = scanner
            ELSE ret' = ret /\ pc' = "discover" /\ scanner' = TRUE
    /\ UNCHANGED <<fs, scan_locals, result, scan_ret, args, emitted, gate, calls>>

\* ------------------------------------------------------------------------
\* scanner.rs: scan_directory and scan_file
\* ------------------------------------------------------------------------
\* ScanResult::new, then discover_files answers Ok(f)
DiscoverOk ==
    /\ pc = "discover"
    /\ fs.discover.ok
    /\ calls' = Called("discover")
    /\ result' = ScanResult_new("target", <<"static">>)
    /\ files' = fs.discover.val
    /\ idx' = 1
    /\ pc' = IF Len(fs.discover.val) = 0 THEN "duration" ELSE "read"
    /\ UNCHANGED <<fs, scanner, file_content, det, vulnerabilities, failed, invoked,
                   faults, scan_ret, args, emitted, gate, ret>>

\* a slip: the discovery error is logged and the scan goes on with no file
DiscoverErrSwallowed ==
    /\ pc = "discover"
    /\ ~fs.discover.ok
    /\ calls' = Called("discover")
    /\ result' = ScanResult_new("target", <<"static">>)
    /\ files' = <<>>
    /\ idx' = 1
    /\ pc' = "duration"
    /\ UNCHANGED <<fs, scanner, file_content, det, vulnerabilities, failed, invoked,
                   faults, scan_ret, args, emitted, gate, ret>>

\* discover_files answers Err(e): scan_directory returns the error, the result
\* is dropped, and execute returns it with context
DiscoverErr ==
    /\ pc = "discover"
    /\ ~fs.discover.ok
    /\ calls' = Called("discover")
    /\ result' = NoResult
    /\ scan_ret' = "Err"
    /\ ret' = "Err: failed to scan directory"
    /\ pc' = "done"
    /\ UNCHANGED <<fs, scanner, scan_locals, args, emitted, gate>>

\* scan_file: read_file answers Ok(c)
ReadOk ==
    /\ pc = "read"
    /\ read_file(files[idx]).ok
    /\ calls' = Called("read")
    /\ file_content' = read_file(files[idx]).val
    /\ vulnerabilities' = <<>>
    /\ det' = 1
    /\ pc' = "detect"
    /\ UNCHANGED <<fs, scanner, files, idx, failed, invoked, faults, result,
                   scan_ret, args, emitted, gate, ret>>

\* a slip: read_file(path)? hands the read error to scan_directory, whose own ?
\* returns it, and execute returns it with context
ReadErrPropagated ==
    /\ pc = "read"
    /\ ~read_file(files[idx]).ok
    /\ calls' = Called("read")
    /\ result' = NoResult
    /\ scan_ret' = "Err"
    /\ ret' = "Err: failed to scan directory"
    /\ pc' = "done"
    /\ UNCHANGED <<fs, scanner, scan_locals, args, emitted, gate>>

\* scan_file: read_file answers Err(e): return Ok(vulnerabilities), still empty
ReadErr ==
    /\ pc = "read"
    /\ ~read_file(files[idx]).ok
    /\ calls' = Called("read")
    /\ vulnerabilities' = <<>>
    /\ pc' = "fold"
    /\ UNCHANGED <<fs, scanner, files, idx, file_content, det, failed, invoked, faults,
                   result, scan_ret, args, emitted, gate, ret>>

\* the ten match blocks of scan_file, in their order
Detectors == 1..10

DetectorCall(d, c, file_path) ==
    CASE d = 1 -> secrets_detect(c, file_path)
      [] d = 2 -> detect_command_injection(c, file_path)
      [] d = 3 -> detect_sensitive_file_access(c, file_path)
      [] d = 4 -> tool_poisoning_detect(c)
      [] d = 5 -> prompt_injection_detect(c)
      [] d = 6 -> code_injection_detect(c, file_path)
      [] d = 7 -> deserialization_detect(c, file_path)
      [] d = 8 -> path_traversal_detect(c, file_path)
      [] d = 9 -> sql_injection_detect(c, file_path)
      [] d = 10 -> ssrf_detect(c, file_path)

\* the answers of the ten blocks on the files of the tree, computed once
Detected ==
    {<<f, d, DetectorCall(d, FileText(f), f)>> : f \in FileNames, d \in Detectors}

Answer(d, file_path) ==
    (CHOOSE t \in Detected : t[1] = file_path /\ t[2] = d)[3]

\* the call of block d in scan_file
RunBlock(d, c, file_path) ==
    IF file_path \in FileNames /\ c = FileText(file_path)
    THEN Answer(d, file_path)
    ELSE DetectorCall(d, c, file_path)

\* after block d: the next block, or Ok(vulnerabilities) back in scan_directory
AfterBlock(d) == IF d = 10 THEN "fold" ELSE "detect"

\* a slip: the findings of a block are put in front of the earlier ones
RunDetectorOkPrepends ==
    /\ pc = "detect"
    /\ LET r == RunBlock(det, file_content, files[idx])
       IN /\ r.ok
          /\ vulnerabilities' = r.val \o vulnerabilities
    /\ invoked' = invoked \cup {det}
    /\ calls' = Called("detect")
    /\ det' = det + 1
    /\ pc' = AfterBlock(det)
    /\ UNCHANGED <<fs, scanner, files, idx, file_content, failed, faults, result,
                   scan_ret, args, emitted, gate, ret>>

\* block det, arm Ok(vulns): vulnerabilities.extend(vulns)
RunDetectorOk ==
    /\ pc = "detect"
    /\ LET r == RunBlock(det, file_content, files[idx])
       IN /\ r.ok
          /\ vulnerabilities' = vulnerabilities \o r.val
    /\ invoked' = invoked \cup {det}
    /\ calls' = Called("detect")
    /\ det' = det + 1
    /\ pc' = AfterBlock(det)
    /\ UNCHANGED <<fs, scanner, files, idx, file_content, failed, faults, result,
                   scan_ret, args, emitted, gate, ret>>

\* a slip: the Err arm leaves scan_file as `?` would, the later blocks never run
RunDetectorErrReturns ==
    /\ pc = "detect"
    /\ faults < MaxFaults
    /\ faults' = faults + 1
    /\ failed' = failed \cup {det}
    /\ invoked' = invoked \cup {det}
    /\ calls' = Called("detect")
    /\ det' = det + 1
    /\ pc' = "fold"
    /\ UNCHANGED <<fs, scanner, files, idx, file_content, vulnerabilities, result,
                   scan_ret, args, emitted, gate, ret>>

\* block det, arm Err(e): warn!, nothing else.  No detector of the catalog
\* returns Err; the arm is taken here for a detector that would.
RunDetectorErr ==
    /\ pc = "detect"
    /\ faults < MaxFaults
    /\ faults' = faults + 1
    /\ failed' = failed \cup {det}
    /\ invoked' = invoked \cup {det}
    /\ calls' = Called("detect")
    /\ det' = det + 1
    /\ pc' = AfterBlock(det)
    /\ UNCHANGED <<fs, scanner, files, idx, file_content, vulnerabilities, result,
                   scan_ret, args, emitted, gate, ret>>

\* a slip: the vectors of the files are gathered and folded in after the loop
AddVulnerabilitiesBatched ==
    /\ pc = "fold"
    /\ IF idx = Len(files)
       THEN /\ result' = add_vulnerabilities(result, vulnerabilities)
            /\ calls' = Called("add")
            /\ vulnerabilities' = <<>>
       ELSE UNCHANGED <<result, calls, vulnerabilities>>
    /\ idx' = idx + 1
    /\ pc' = IF idx = Len(files) THEN "duration" ELSE "read"
    /\ file_content' = ""
    /\ det' = 0
    /\ failed' = {}
    /\ invoked' = {}
    /\ UNCHANGED <<fs, scanner, files, faults, scan_ret, args, emitted, gate, ret>>

\* a slip: add_vulnerabilities is called only for a file with findings
AddVulnerabilitiesSkipEmpty ==
    /\ pc = "fold"
    /\ IF vulnerabilities = <<>>
       THEN UNCHANGED <<result, calls>>
       ELSE /\ result' = add_vulnerabilities(result, vulnerabilities)
            /\ calls' = Called("add")
    /\ idx' = idx + 1
    /\ pc' = IF idx = Len(files) THEN "duration" ELSE "read"
    /\ file_content' = ""
    /\ det' = 0
    /\ vulnerabilities' = <<>>
    /\ failed' = {}
    /\ invoked' = {}
    /\ UNCHANGED <<fs, scanner, files, faults, scan_ret, args, emitted, gate, ret>>

\* scan_directory: scan_file returned Ok(vulns); result.add_vulnerabilities(vulns)
\* and the next turn of the loop
AddVulnerabilities ==
    /\ pc = "fold"
    /\ result' = add_vulnerabilities(result, vulnerabilities)
    /\ calls' = Called("add")
    /\ idx' = idx + 1
    /\ pc' = IF idx = Len(files) THEN "duration" ELSE "read"
    /\ file_content' = ""
    /\ det' = 0
    /\ vulnerabilities' = <<>>
    /\ failed' = {}
    /\ invoked' = {}
    /\ UNCHANGED <<fs, scanner, files, faults, scan_ret, args, emitted, gate, ret>>

\* scan_directory: result.set_duration(elapsed) and Ok(result)
SetDuration ==
    /\ pc = "duration"
    /\ \E ms \in 0..MaxMillis : result' = set_duration(result, ms)
    /\ calls' = Called("duration")
    /\ scan_ret' = "Ok"
    /\ pc' = "render"
    /\ UNCHANGED <<fs, scanner, scan_locals, args, emitted, gate, ret>>

\* ------------------------------------------------------------------------
\* cli/scan.rs: execute, after scan_directory returned Ok(result).  output,
\* output_file and fail_on are arguments that execute does not read before
\* these steps; each is drawn where it is first read.
\* ------------------------------------------------------------------------
\* OutputFormat::Terminal: output::terminal::render returns Ok(())
RenderTerminal ==
    /\ pc = "render"
    /\ args' = [args EXCEPT !.output = "Terminal"]
    /\ calls' = Called("render")
    /\ emitted' = "terminal"
    /\ pc' = "threshold"
    /\ UNCHANGED <<fs, scanner, scan_locals, result, scan_ret, gate, ret>>

\* a slip: a failed fs::write is logged and execute goes on
RenderJsonWriteIgnored ==
    /\ pc = "render"
    /\ calls' = Called("render")
    /\ \E generated \in BOOLEAN, output_file \in {"None", "Some"}, written \in BOOLEAN :
         IF ~generated
         THEN /\ args' = [args EXCEPT !.output = "Json"]
              /\ ret' = "Err: failed to generate JSON report"
              /\ pc' = "done" /\ emitted' = emitted
         ELSE IF output_file = "None"
              THEN /\ args' = [args EXCEPT !.output = "Json", !.output_file = "None"]
                   /\ emitted' = "stdout" /\ pc' = "threshold" /\ ret' = ret
              ELSE /\ args' = [args EXCEPT !.output = "Json", !.output_file = "Some"]
                   /\ emitted' = (IF written THEN "file" ELSE emitted)
                   /\ pc' = "threshold" /\ ret' = ret
    /\ UNCHANGED <<fs, scanner, scan_locals, result, scan_ret, gate>>

\* OutputFormat::Json: output::json::generate, then fs::write or println!
RenderJson ==
    /\ pc = "render"
    /\ calls' = Called("render")
    /\ \E generated \in BOOLEAN, output_file \in {"None", "Some"}, written \in BOOLEAN :
         IF ~generated
         THEN /\ args' = [args EXCEPT !.output = "Json"]
              /\ ret' = "Err: failed to generate JSON report"
              /\ pc' = "done" /\ emitted' = emitted
         ELSE IF output_file = "None"
              THEN /\ args' = [args EXCEPT !.output = "Json", !.output_file = "None"]
                   /\ emitted' = "stdout" /\ pc' = "threshold" /\ ret' = ret
              ELSE /\ args' = [args EXCEPT !.output = "Json", !.output_file = "Some"]
                   /\ IF written
                      THEN emitted' = "file" /\ pc' = "threshold" /\ ret' = ret
                      ELSE emitted' = emitted /\ pc' = "done"
                           /\ ret' = "Err: failed to write report"
    /\ UNCHANGED <<fs, scanner, scan_locals, result, scan_ret, gate>>

\* any other OutputFormat: bail!("not yet implemented")
RenderUnsupported ==
    /\ pc = "render"
    /\ \E o \in OutputFormats \ {"Terminal", "Json"} :
         args' = [args EXCEPT !.output = o]
    /\ ret' = "Err: output format not yet implemented"
    /\ pc' = "done"
    /\ UNCHANGED <<fs, scanner, scan_locals, result, scan_ret, emitted, gate, calls>>

\* a slip: two arms of the match name the same Severity
ThresholdSeverityShifted(threshold) ==
    CASE threshold = "Low" -> "Low"
      [] threshold = "Medium" -> "Medium"
      [] threshold = "High" -> "Critical"
      [] threshold = "Critical" -> "Critical"

\* the match of fail_on's SeverityLevel to Severity
ThresholdSeverity(threshold) ==
    CASE threshold = "Low" -> "Low"
      [] threshold = "Medium" -> "Medium"
      [] threshold = "High" -> "High"
      [] threshold = "Critical" -> "Critical"

\* a slip: the threshold block stands before the output block
CheckThresholdBeforeOutput ==
    /\ pc = "render"
    /\ args.fail_on = "unread"
    /\ \E f \in {"None"} \cup SeverityLevels :
         /\ args' = [args EXCEPT !.fail_on = f]
         /\ IF f = "None"
            THEN gate' = gate /\ calls' = calls /\ ret' = ret /\ pc' = pc
            ELSE LET hit == has_issues_at_level(result, ThresholdSeverity(f))
                 IN /\ gate' = (IF hit THEN "yes" ELSE "no")
                    /\ calls' = Called("threshold")
                    /\ ret' = IF hit THEN "Err: found vulnerabilities at or above level"
                              ELSE ret
                    /\ pc' = IF hit THEN "done" ELSE pc
    /\ UNCHANGED <<fs, scanner, scan_locals, result, scan_ret, emitted>>

\* if let Some(threshold) = fail_on: bail! when has_issues_at_level; else Ok(())
CheckThreshold ==
    /\ pc = "threshold"
    /\ \E f \in {"None"} \cup SeverityLevels :
         /\ args' = [args EXCEPT !.fail_on = f]
         /\ IF f = "None"
            THEN gate' = gate /\ calls' = calls /\ ret' = "Ok"
            ELSE LET hit == has_issues_at_level(result, ThresholdSeverity(f))
                 IN /\ gate' = (IF hit THEN "yes" ELSE "no")
                    /\ calls' = Called("threshold")
                    /\ ret' = IF hit THEN "Err: found vulnerabilities at or above level"
                              ELSE "Ok"
    /\ pc' = "done"
    /\ UNCHANGED <<fs, scanner, scan_locals, result, scan_ret, emitted>>

Next ==
    \/ ValidateTarget
    \/ DiscoverOk
    \/ DiscoverErr
    \/ ReadOk
    \/ ReadErr
    \/ RunDetectorOk
    \/ RunDetectorErr
    \/ AddVulnerabilities
    \/ SetDuration
    \/ RenderTerminal
    \/ RenderJson
    \/ RenderUnsupported
    \/ CheckThreshold

Spec == Init /\ [][Next]_vars

\* ------------------------------------------------------------------------
\* ScanResult driven through its methods alone, with findings of every
\* severity: add_vulnerabilities, set_duration and the threshold query as
\* execute asks it
\* ------------------------------------------------------------------------
Sample(severity) ==
    Vuln("SAMPLE-001", "CodeInjection", severity, "Sample", "s.py", 1, NoColumn,
         "sample", 90)

\* the lists of at most n findings
RECURSIVE SampleLists(_)
SampleLists(n) ==
    IF n = 0 THEN {<<>>}
    ELSE LET shorter == SampleLists(n - 1)
         IN shorter \cup {Append(l, Sample(sv)) : l \in shorter, sv \in Severities}

Idle ==
    /\ fs = [target |-> "dir", discover |-> Ok(<<>>)]
    /\ scanner = FALSE
    /\ files = <<>>
    /\ idx = 0
    /\ file_content = ""
    /\ det = 0
    /\ vulnerabilities = <<>>
    /\ failed = {}
    /\ invoked = {}
    /\ faults = 0
    /\ scan_ret = "none"
    /\ args = [output |-> "unread", output_file |-> "unread", fail_on |-> "unread"]
    /\ emitted = "none"
    /\ gate = "none"
    /\ calls = NoCalls
    /\ ret = "none"

InitResult ==
    /\ Idle
    /\ pc = "result"
    /\ result = ScanResult_new("target", <<"static">>)

\* result.add_vulnerabilities(vulns), any list, the empty one too
ApiAddVulnerabilities ==
    /\ pc = "result"
    /\ \E vulns \in SampleLists(MaxFindings) :
         /\ Len(result.vulnerabilities) + Len(vulns) <= MaxFindings
         /\ result' = add_vulnerabilities(result, vulns)
    /\ gate' = "none"
    /\ args' = [args EXCEPT !.fail_on = "unread"]
    /\ UNCHANGED <<fs, pc, scanner, scan_locals, scan_ret, emitted, calls, ret>>

\* result.set_duration(ms)
ApiSetDuration ==
    /\ pc = "result"
    /\ \E ms \in 0..MaxMillis : result' = set_duration(result, ms)
    /\ UNCHANGED <<fs, pc, scanner, scan_locals, scan_ret, args, emitted, gate,
                   calls, ret>>

\* result.has_issues_at_level(threshold_severity) for fail_on = Some(threshold)
ApiHasIssuesAtLevel ==
    /\ pc = "result"
    /\ \E threshold \in SeverityLevels :
         /\ args' = [args EXCEPT !.fail_on = threshold]
         /\ gate' = (IF has_issues_at_level(result, ThresholdSeverity(threshold))
                     THEN "yes" ELSE "no")
    /\ UNCHANGED <<fs, pc, scanner, scan_locals, result, scan_ret, emitted, calls,
                   ret>>

NextResult == ApiAddVulnerabilities \/ ApiSetDuration \/ ApiHasIssuesAtLevel

SpecResult == InitResult /\ [][NextResult]_vars

\* ------------------------------------------------------------------------
\* One detector alone on a text of at most MaxLines lines
\* ------------------------------------------------------------------------
LineCatalog ==
    {"eval(x)",
     "  # eval(x)",
     "\t// exec(y)",
     "x = 1 # eval(z)",
     "/ exec(eval(compile(x))) #",
     "d = pickle.loads(b)",
     "q = open(p + \"../\")",
     "db.execute(s + fetch(u + v))",
     "data = json.loads(x)",
     ""}

\* the texts of at most n lines, each line ended by "\n"
RECURSIVE Texts(_)
Texts(n) ==
    IF n = 0 THEN {""}
    ELSE LET shorter == Texts(n - 1)
         IN shorter \cup {t \o l \o "\n" : t \in shorter, l \in LineCatalog}

InitDetect ==
    /\ fs = [target |-> "dir", discover |-> Ok(<<>>)]
    /\ pc = "detector"
    /\ scanner = FALSE
    /\ files \in {<<"t.py">>, <<"t.js">>}
    /\ idx = 1
    /\ file_content \in Texts(MaxLines)
    /\ det = 0
    /\ vulnerabilities = <<>>
    /\ failed = {}
    /\ invoked = {}
    /\ faults = 0
    /\ result = NoResult
    /\ scan_ret = "none"
    /\ args = [output |-> "unread", output_file |-> "unread", fail_on |-> "unread"]
    /\ emitted = "none"
    /\ gate = "none"
    /\ calls = NoCalls
    /\ ret = "none"

\* detect(&content, &file_path) of block d; ret is Ok or Err as it returned
ApplyDetector ==
    /\ pc = "detector"
    /\ \E d \in Detectors :
         \E r \in {DetectorCall(d, file_content, files[idx])} :
            /\ det' = d
            /\ invoked' = {d}
            /\ vulnerabilities' = IF r.ok THEN r.val ELSE <<>>
            /\ ret' = IF r.ok THEN "Ok" ELSE "Err"
    /\ pc' = "detected"
    /\ UNCHANGED <<fs, scanner, files, idx, file_content, failed, faults, result,
                   scan_ret, args, emitted, gate, calls>>

NextDetect == ApplyDetector

SpecDetect == InitDetect /\ [][NextDetect]_vars

\* ------------------------------------------------------------------------
\* Properties
\* ------------------------------------------------------------------------
\* the findings on a file of the tree of the blocks d.. that are not in bad,
\* in the order of the blocks
RECURSIVE FindingsFrom(_, _, _)
FindingsFrom(d, file_path, bad) ==
    IF d > 10 THEN <<>>
    ELSE (IF d \in bad THEN <<>> ELSE Answer(d, file_path).val)
         \o FindingsFrom(d + 1, file_path, bad)

Readable(path) == read_file(path).ok

\* scan_file has returned and scan_directory has not folded its vector yet
FileReturned == pc = "fold"

ScanOver == pc \in {"render", "threshold", "done"}

\* C1: when scan_file returns for a readable file, all ten blocks have run,
\* whichever of them failed, and its vector is the concatenation, in block
\* order, of the findings of the blocks that did not fail; a scan in which
\* detectors failed still returns Ok.
C1_DetectorFailureIsolation ==
    /\ (FileReturned /\ Readable(files[idx])) =>
          /\ invoked = Detectors
          /\ vulnerabilities = FindingsFrom(1, files[idx], failed)
    /\ (ScanOver /\ fs.discover.ok) => scan_ret = "Ok"

\* two blocks failed, one of them code injection, and a later block found something
C1_Witness ==
    /\ FileReturned
    /\ files[idx] = "d.js"
    /\ failed = {2, 6}
    /\ Len(vulnerabilities) = 2

\* C2: when discover_files fails, scan_directory returns the error and no
\* ScanResult, nothing is read, no detector runs, add_vulnerabilities and
\* set_duration are not called; and scan_directory fails in no other case.
C2_FatalDiscovery ==
    /\ (fs.target = "dir" /\ ~fs.discover.ok /\ calls.discover > 0) =>
          /\ pc = "done"
          /\ scan_ret = "Err"
          /\ ret = "Err: failed to scan directory"
          /\ result = NoResult
          /\ calls.read = 0 /\ calls.detect = 0
          /\ calls.add = 0 /\ calls.duration = 0
    /\ scan_ret = "Err" => ~fs.discover.ok

C2_Witness == scan_ret = "Err" /\ pc = "done" /\ calls.discover = 1

\* C3: a file that read_file fails on runs no detector and yields no finding;
\* folding it keeps the findings of the earlier files and goes on to the next
\* file; every discovered file is read and folded, and scan_directory returns Ok.
C3_SkipState ==
    /\ (FileReturned /\ ~Readable(files[idx])) =>
          /\ invoked = {}
          /\ vulnerabilities = <<>>
    /\ (ScanOver /\ fs.discover.ok) =>
          /\ scan_ret = "Ok"
          /\ calls.read = Len(files)
          /\ calls.add = Len(files)
          /\ calls.detect = 10 * Cardinality({i \in 1..Len(files) : Readable(files[i])})

C3_SkipStep ==
    (FileReturned /\ ~Readable(files[idx])) =>
        /\ result'.vulnerabilities = result.vulnerabilities
        /\ result'.summary = result.summary
        /\ idx' = idx + 1
        /\ pc' = IF idx < Len(files) THEN "read" ELSE "duration"

C3_UnreadableFileSkipped == []C3_SkipState /\ [][C3_SkipStep]_vars

\* the unreadable file is the second of three, after a file with findings
C3_Witness ==
    /\ FileReturned
    /\ ~Readable(files[idx])
    /\ idx = 2
    /\ Len(files) = 3
    /\ Len(result.vulnerabilities) > 0

\* the severities at or above a level, in the order Low < Medium < High < Critical
AtOrAbove(level) ==
    CASE level = "Low" -> {"Low", "Medium", "High", "Critical"}
      [] level = "Medium" -> {"Medium", "High", "Critical"}
      [] level = "High" -> {"High", "Critical"}
      [] level = "Critical" -> {"Critical"}

Exceeds(r, level) ==
    \E i \in 1..Len(r.vulnerabilities) : r.vulnerabilities[i].severity \in AtOrAbove(level)

CountOf(r, severity) ==
    Cardinality({i \in 1..Len(r.vulnerabilities) : r.vulnerabilities[i].severity = severity})

\* C4: whatever lists add_vulnerabilities was called with, total_issues is the
\* number of findings and each severity counter is the number of findings of
\* that severity.
C4_AggregationInvariant ==
    result # NoResult =>
        /\ result.summary.total_issues = Len(result.vulnerabilities)
        /\ result.summary.low = CountOf(result, "Low")
        /\ result.summary.medium = CountOf(result, "Medium")
        /\ result.summary.high = CountOf(result, "High")
        /\ result.summary.critical = CountOf(result, "Critical")

C4_Witness ==
    /\ pc = "result"
    /\ result.summary.low = 1
    /\ result.summary.medium = 1
    /\ result.summary.critical = 1

\* C5: the answer of has_issues_at_level for the threshold T of fail_on is true
\* exactly when a finding has a severity at or above T, and asking does not
\* change the result.
C5_Answer == gate # "none" => (gate = "yes" <=> Exceeds(result, args.fail_on))

C5_Query == (gate' # "none" /\ (gate' # gate \/ args' # args)) => result' = result

C5_ThresholdGate == []C5_Answer /\ [][C5_Query]_vars

\* High is asked of a result that holds a Low and a Medium finding only
C5_Witness ==
    /\ pc = "result"
    /\ args.fail_on = "High"
    /\ gate = "no"
    /\ result.summary.low > 0
    /\ result.summary.medium > 0

\* the commented os.system file and the eval file, and no detector fault
C6_Scenario ==
    /\ scan_ret = "Ok"
    /\ faults = 0
    /\ files \in {<<"a.py", "b.py">>, <<"b.py", "a.py">>}

\* C6: scanning the file with os.system(cmd + user_input) in a comment and the
\* file with eval(user_input) reports exactly one finding, a code injection
\* at the line of the eval call.
C6_EndToEndOneFinding ==
    C6_Scenario =>
        /\ Len(result.vulnerabilities) = 1
        /\ result.vulnerabilities[1].kind = "CodeInjection"
        /\ result.vulnerabilities[1].file = "b.py"
        /\ result.vulnerabilities[1].line = 1

\* C7: execute returns Ok exactly when the target is a directory, the scan
\* succeeded, the report was emitted and no given threshold is reached; it
\* returns an error otherwise.
C7_ExitOutcome ==
    pc = "done" =>
        /\ ret # "none"
        /\ ret = "Ok" <=>
             /\ fs.target = "dir"
             /\ scan_ret = "Ok"
             /\ emitted # "none"
             /\ \/ args.fail_on = "None"
                \/ args.fail_on \in SeverityLevels /\ ~Exceeds(result, args.fail_on)

\* Ok under the threshold High with a report written to a file and findings in it
C7_Witness ==
    /\ pc = "done"
    /\ ret = "Ok"
    /\ args.fail_on = "High"
    /\ emitted = "file"
    /\ Len(result.vulnerabilities) > 0

PolicyFailure == ret = "Err: found vulnerabilities at or above level"

\* C8: fail_on is read and has_issues_at_level asked only after scan_directory
\* returned Ok and the report is out; a policy failure comes with a result
\* and an emitted report.
C8_PolicyFailureLast ==
    /\ (args.fail_on # "unread" \/ calls.threshold > 0 \/ gate # "none") =>
          /\ scan_ret = "Ok"
          /\ calls.render = 1
          /\ emitted # "none"
    /\ PolicyFailure =>
          /\ scan_ret = "Ok"
          /\ result # NoResult
          /\ emitted # "none"
          /\ gate = "yes"

C8_Witness == PolicyFailure /\ emitted = "stdout" /\ args.fail_on = "Medium"

\* C9: for a target that does not exist or is no directory execute returns
\* its error at once: no Scanner, no discovery, no ScanResult, no output.
C9_InvalidTargetFatal ==
    (fs.target # "dir" /\ pc # "start") =>
        /\ pc = "done"
        /\ ret = (IF fs.target = "missing" THEN "Err: target path does not exist"
                  ELSE "Err: target must be a directory")
        /\ scanner = FALSE
        /\ calls = NoCalls
        /\ result = NoResult
        /\ scan_ret = "none"
        /\ emitted = "none"

C9_Witness == fs.target = "file" /\ pc = "done" /\ ret = "Err: target must be a directory"

\* after leading whitespace the line starts with # or //
CommentStart(line) ==
    \E k \in 1..Len(line) :
        /\ \A j \in 1..(k - 1) : CharAt(line, j) \in WhiteSpace
        /\ \/ CharAt(line, k) = "#"
           \/ SubSeq(line, k, k + 1) = "//"

\* the patterns of the code injection catalog that match a line
Matching(line) ==
    {k \in 1..Len(CODE_INJECTION_PATTERNS) :
        is_match(CODE_INJECTION_PATTERNS[k].regex, line)}

OnLine(vulns, n) == {k \in 1..Len(vulns) : vulns[k].line = n}

CodeInjectionReturned == pc = "detected" /\ det = 6

\* C10: the code injection detector reports nothing on a line that starts,
\* after whitespace, with # or //; on every other line it reports one finding
\* for each pattern that matches; and the ids count the findings alone.
C10_CommentSkipping ==
    CodeInjectionReturned =>
        \A ls \in {Lines(file_content)} :
        /\ \A n \in 1..Len(ls) :
             Cardinality(OnLine(vulnerabilities, n)) =
                 (IF CommentStart(ls[n]) THEN 0 ELSE Cardinality(Matching(ls[n])))
        /\ \A k \in 1..Len(vulnerabilities) :
             vulnerabilities[k].id = "CODE-INJ-" \o Fmt03(k)

\* an indented comment with eval( in it, then a live eval( with its four findings
C10_Witness ==
    /\ CodeInjectionReturned
    /\ file_content = "  # eval(x)\neval(x)\n"
    /\ Len(vulnerabilities) = 4
    /\ vulnerabilities[1].id = "CODE-INJ-001"
    /\ vulnerabilities[1].line = 2

\* the stubbed and the implemented blocks of scan_file
Stubs == 1..5
Implemented == 6..10

\* the regexes of the catalog of an implemented family, in table order
Catalog(d) ==
    CASE d = 6 -> [k \in 1..Len(CODE_INJECTION_PATTERNS) |->
                      CODE_INJECTION_PATTERNS[k].regex]
      [] d = 7 -> [k \in 1..Len(DESERIALIZATION_PATTERNS) |->
                      DESERIALIZATION_PATTERNS[k].regex]
      [] d = 8 -> PATH_TRAVERSAL_PATTERNS
      [] d = 9 -> SQL_INJECTION_PATTERNS
      [] d = 10 -> SSRF_PATTERNS

\* the patterns of family d that match a line
MatchingOf(d, line) ==
    {k \in 1..Len(Catalog(d)) : is_match(Catalog(d)[k], line)}

\* only the code injection family skips lines: those that are comments
FamilySkips(d, line) == d = 6 /\ CommentStart(line)

FamilyKind(d) ==
    CASE d = 6 -> "CodeInjection"
      [] d = 7 -> "UnsafeDeserialization"
      [] d = 8 -> "PathTraversal"
      [] d = 9 -> "SqlInjection"
      [] d = 10 -> "DataExfiltration"

FamilyPrefix(d) ==
    CASE d = 6 -> "CODE-INJ-"
      [] d = 7 -> "DESER-"
      [] d = 8 -> "PATH-TRAV-"
      [] d = 9 -> "SQL-INJ-"
      [] d = 10 -> "SSRF-"

ImplementedReturned == pc = "detected" /\ det \in Implemented
StubReturned == pc = "detected" /\ det \in Stubs

\* C11: an implemented detector returns findings exactly when some line of
\* the content that its family does not skip matches a pattern of its
\* catalog; a content without such a line yields no finding.
C11_FindingsIffMatch ==
    ImplementedReturned =>
        \A ls \in {Lines(file_content)} :
        (vulnerabilities # <<>>) <=>
            \E n \in 1..Len(ls) :
                ~FamilySkips(det, ls[n]) /\ MatchingOf(det, ls[n]) # {}

\* the SSRF detector on a line that only the third pattern of its catalog matches
C11_Witness ==
    /\ ImplementedReturned
    /\ det = 10
    /\ file_content = "data = json.loads(x)\ndb.execute(s + fetch(u + v))\n"
    /\ MatchingOf(10, "db.execute(s + fetch(u + v))") = {3}
    /\ Len(vulnerabilities) = 1

\* C12: every finding of an implemented detector has the kind of its family,
\* the file_path it was given, a 1-based line within the content, and as
\* code_snippet that very line, which matches a pattern of the family.
C12_FindingPointsAtTrigger ==
    ImplementedReturned =>
        \A ls \in {Lines(file_content)} :
        \A k \in 1..Len(vulnerabilities) :
            LET v == vulnerabilities[k] IN
            /\ v.kind = FamilyKind(det)
            /\ v.file = files[idx]
            /\ v.line \in 1..Len(ls)
            /\ v.code_snippet = ls[v.line]
            /\ MatchingOf(det, ls[v.line]) # {}

\* a deserialization finding on the second line of a content
C12_Witness ==
    /\ ImplementedReturned
    /\ det = 7
    /\ file_content = "\nd = pickle.loads(b)\n"
    /\ Len(vulnerabilities) = 1
    /\ vulnerabilities[1].line = 2
    /\ vulnerabilities[1].code_snippet = "d = pickle.loads(b)"
    /\ vulnerabilities[1].kind = "UnsafeDeserialization"

C14_DetectorsNeverFail ==
    ImplementedReturned => ret = "Ok"

\* the SQL injection detector returns Ok with its finding
C14_Witness ==
    /\ ImplementedReturned
    /\ det = 9
    /\ file_content = "db.execute(s + fetch(u + v))\n"
    /\ ret = "Ok"
    /\ Len(vulnerabilities) = 1

\* the file paths a detector is given
DetectPaths == {"t.py", "t.js"}

\* a finding without its location.file
SansFile(v) ==
    [id |-> v.id, kind |-> v.kind, severity |-> v.severity, title |-> v.title,
     line |-> v.line, column |-> v.column, code_snippet |-> v.code_snippet,
     confidence |-> v.confidence]

\* C15: the file path does not decide which patterns are tried: for the same
\* content and any other file path the detector returns a list of the same
\* length whose findings agree one by one in everything but location.file,
\* which is the path given.
C15_LanguageAgnostic ==
    pc = "detected" =>
        \A other \in DetectPaths \ {files[idx]} :
        \A o \in {DetectorCall(det, file_content, other)} :
            /\ o.ok <=> ret = "Ok"
            /\ o.ok => /\ Len(o.val) = Len(vulnerabilities)
                       /\ \A k \in 1..Len(vulnerabilities) :
                            /\ SansFile(o.val[k]) = SansFile(vulnerabilities[k])
                            /\ o.val[k].file = other
                            /\ vulnerabilities[k].file = files[idx]

\* the Python, Ruby and PHP entries report eval( in a .js file
C15_Witness ==
    /\ pc = "detected"
    /\ det = 6
    /\ files[idx] = "t.js"
    /\ file_content = "eval(x)\n"
    /\ Len(vulnerabilities) = 4
    /\ vulnerabilities[1].title = "Python eval() usage Detected"
    /\ vulnerabilities[3].title = "Ruby eval() usage Detected"

\* C16: every pattern-based detector reports, on each line it does not skip,
\* one finding for every pattern of its catalog that matches the line: a line
\* matched by k patterns of the family yields k findings of the family.
C16_NoDeduplication ==
    ImplementedReturned =>
        \A ls \in {Lines(file_content)} :
        \A n \in 1..Len(ls) :
            Cardinality(OnLine(vulnerabilities, n)) =
                (IF FamilySkips(det, ls[n]) THEN 0
                 ELSE Cardinality(MatchingOf(det, ls[n])))

\* k in three digits, for k below 1000
ThreeDigits(k) ==
    DigitStr(k \div 100) \o DigitStr((k \div 10) % 10) \o DigitStr(k % 10)

\* C17: in one detect call of an implemented family the k-th finding has the
\* id PREFIX-k, k in three digits from 001 on whatever the file, so the ids of
\* one call are pairwise distinct.
C17_SequentialIds ==
    ImplementedReturned =>
        /\ \A k \in 1..Len(vulnerabilities) :
              vulnerabilities[k].id = FamilyPrefix(det) \o ThreeDigits(k)
        /\ \A j, k \in 1..Len(vulnerabilities) :
              j # k => vulnerabilities[j].id # vulnerabilities[k].id

\* twelve code injection findings on two lines: ids 001 to 012
C17_Witness ==
    /\ ImplementedReturned
    /\ det = 6
    /\ file_content = "/ exec(eval(compile(x))) #\n/ exec(eval(compile(x))) #\n"
    /\ Len(vulnerabilities) = 12
    /\ vulnerabilities[1].id = "CODE-INJ-001"
    /\ vulnerabilities[7].line = 2
    /\ vulnerabilities[12].id = "CODE-INJ-012"

\* the pattern strings of the catalog of an implemented family, in table order
Sources(d) ==
    CASE d = 6 -> [k \in 1..Len(CODE_INJECTION_PATTERNS) |->
                      CODE_INJECTION_PATTERNS[k].src]
      [] d = 7 -> [k \in 1..Len(DESERIALIZATION_PATTERNS) |->
                      DESERIALIZATION_PATTERNS[k].src]
      [] d = 8 -> PATH_TRAVERSAL_SOURCES
      [] d = 9 -> SQL_INJECTION_SOURCES
      [] d = 10 -> SSRF_SOURCES

\* 1-based offset of the first occurrence of the pattern string; 1 without one
ColumnOf(line, src) ==
    LET found == Find(line, src) IN IF found = -1 THEN 1 ELSE found + 1

\* C18: every finding of a pattern-based detector carries a column: the
\* 1-based offset in its line of the first literal occurrence of the pattern
\* string of a pattern that matched, and 1 when the string does not occur.
C18_Column ==
    ImplementedReturned =>
        \A ls \in {Lines(file_content)} :
        \A k \in 1..Len(vulnerabilities) :
            LET v == vulnerabilities[k]
                line == ls[v.line]
            IN \E p \in MatchingOf(det, line) :
                   v.column = ColumnOf(line, Sources(det)[p])

\* position of a file in the discovered list (the list holds no file twice)
FilePos(f) == CHOOSE i \in 1..Len(files) : files[i] = f

\* the block of scan_file that reports findings of a kind
BlockOf(kind) == CHOOSE d \in Implemented : FamilyKind(d) = kind

\* finding a may stand before finding b in the result
InOrder(a, b) ==
    \/ FilePos(a.file) < FilePos(b.file)
    \/ /\ a.file = b.file
       /\ \/ BlockOf(a.kind) < BlockOf(b.kind)
          \/ a.kind = b.kind /\ a.line <= b.line

\* C19: the findings of the result are ordered by the position of their file
\* in the discovered list, then by the block of scan_file that reported them,
\* then by line; their severity plays no part.
C19_FindingOrder ==
    result # NoResult =>
        \A i, j \in 1..Len(result.vulnerabilities) :
            i < j => InOrder(result.vulnerabilities[i], result.vulnerabilities[j])

\* a Medium finding of the first file, then the Critical findings of line 3
\* of the second, then its High finding of line 2
C19_Witness ==
    /\ scan_ret = "Ok"
    /\ files = <<"c.py", "d.js">>
    /\ Len(result.vulnerabilities) = 7
    /\ result.vulnerabilities[1].severity = "Medium"
    /\ result.vulnerabilities[2].severity = "Critical"
    /\ result.vulnerabilities[2].line = 3
    /\ result.vulnerabilities[6].kind = "PathTraversal"
    /\ result.vulnerabilities[6].line = 2
    /\ result.vulnerabilities[7].kind = "DataExfiltration"

\* the calls on the ScanResult at each position of scan_directory
C20_State ==
    /\ pc \in {"start", "discover"} => result = NoResult
    /\ pc \in {"read", "detect", "fold"} =>
          calls.add = idx - 1 /\ calls.duration = 0
    /\ pc = "duration" => calls.add = Len(files) /\ calls.duration = 0
    /\ scan_ret = "Ok" => calls.add = Len(files) /\ calls.duration = 1
    /\ scan_ret = "Err" => calls.add = 0 /\ calls.duration = 0

\* the result starts empty, is folded into once per returning scan_file and
\* is left alone once scan_directory has returned
C20_Step ==
    /\ (result = NoResult /\ result' # NoResult) =>
          result'.vulnerabilities = <<>> /\ result'.summary.total_issues = 0
    /\ pc = "fold" => calls'.add = calls.add + 1
    /\ calls'.add # calls.add => pc = "fold"
    /\ calls'.duration # calls.duration => pc = "duration" /\ scan_ret' = "Ok"
    /\ scan_ret = "Ok" => result' = result /\ scan_ret' = "Ok"

\* C20: in a scan_directory that succeeds the result starts without
\* findings, add_vulnerabilities is called once for every discovered file,
\* skipped ones included, set_duration is called once, after the last
\* add_vulnerabilities and as the result is returned, and the result is not
\* changed afterwards.
C20_Lifecycle == []C20_State /\ [][C20_Step]_vars

\* three files, one of them unreadable: three folds, one set_duration
C20_Witness ==
    /\ pc = "done"
    /\ scan_ret = "Ok"
    /\ Len(files) = 3
    /\ files[2] = "e.bin"
    /\ calls.add = 3
    /\ calls.duration = 1
    /\ calls.read = 3

\* scan_directory is in its file loop
InLoop == pc \in {"read", "detect", "fold"}

\* one file at a time and, in it, the blocks one after the other
C21_State ==
    /\ InLoop =>
          /\ idx \in 1..Len(files)
          /\ calls.add = idx - 1
          /\ \A k \in 1..Len(result.vulnerabilities) :
                FilePos(result.vulnerabilities[k].file) < idx
          /\ \A k \in 1..Len(vulnerabilities) :
                vulnerabilities[k].file = files[idx]
    /\ pc = "read" => calls.read = idx - 1 /\ invoked = {}
    /\ pc = "detect" =>
          /\ calls.read = idx
          /\ det \in Detectors
          /\ invoked = 1..(det - 1)
    /\ pc = "fold" => calls.read = idx /\ invoked \in {{}, Detectors}
    /\ ~InLoop => invoked = {} /\ vulnerabilities = <<>>

\* a detector is called on the file of the loop alone, after the blocks
\* before it and after every earlier file has been folded in
C21_Step ==
    calls'.detect # calls.detect =>
        /\ pc = "detect"
        /\ calls'.detect = calls.detect + 1
        /\ calls.add = idx - 1
        /\ idx' = idx
        /\ invoked = 1..(det - 1)
        /\ invoked' = 1..det
        /\ result' = result

\* C21: scan_directory works on one file at a time and scan_file on one
\* detector at a time: a detector is called on file j only when every file
\* before j has been folded into the result, and only after the detectors
\* before it in the fixed order have returned.
C21_Sequential == []C21_State /\ [][C21_Step]_vars

\* the sixth block is about to run on the second file; the first is folded in
C21_Witness ==
    /\ pc = "detect"
    /\ idx = 2
    /\ det = 6
    /\ invoked = 1..5
    /\ calls.add = 1
    /\ files[1] = "b.py"
    /\ Len(result.vulnerabilities) = 4

\* the severities of the two catalogs that hold one per entry
CatalogSeverities ==
    {CODE_INJECTION_PATTERNS[k].severity : k \in 1..Len(CODE_INJECTION_PATTERNS)}
    \cup {DESERIALIZATION_PATTERNS[k].severity :
              k \in 1..Len(DESERIALIZATION_PATTERNS)}

\* a finding is Medium, High or Critical, and of the severity of its family
Graded(v) ==
    /\ v.severity \in {"Medium", "High", "Critical"}
    /\ v.kind \in {"PathTraversal", "DataExfiltration"} => v.severity = "High"
    /\ v.kind = "SqlInjection" => v.severity = "Critical"

\* C22: no finding is Low: the vector scan_file returns and the result of
\* scan_directory hold Medium, High and Critical findings alone (path
\* traversal and SSRF High, SQL injection Critical), so has_issues_at_level
\* answers the same for Low and for Medium, namely total_issues > 0, and
\* execute with fail_on Low or Medium fails exactly when there is a finding.
C22_NoLowFindings ==
    /\ "Low" \notin CatalogSeverities
    /\ FileReturned => \A k \in 1..Len(vulnerabilities) : Graded(vulnerabilities[k])
    /\ scan_ret = "Ok" =>
          /\ \A k \in 1..Len(result.vulnerabilities) :
                Graded(result.vulnerabilities[k])
          /\ has_issues_at_level(result, "Low") = (result.summary.total_issues > 0)
          /\ has_issues_at_level(result, "Medium") = (result.summary.total_issues > 0)
          /\ result.summary.low = 0
    /\ (pc = "done" /\ args.fail_on \in {"Low", "Medium"}) =>
          /\ gate = (IF result.summary.total_issues > 0 THEN "yes" ELSE "no")
          /\ PolicyFailure <=> result.summary.total_issues > 0
          /\ ret = "Ok" <=> result.summary.total_issues = 0

\* fail_on Low fails a scan whose only finding is Medium
C22_Witness ==
    /\ pc = "done"
    /\ args.fail_on = "Low"
    /\ files = <<"c.py">>
    /\ Len(result.vulnerabilities) = 1
    /\ result.vulnerabilities[1].severity = "Medium"
    /\ gate = "yes"
    /\ PolicyFailure

====
